---- MODULE Spec2Model ----
(***************************************************************************)
(* Model of the Ojas native signal pipeline: SignalProcessor               *)
(* (signal_processor.cpp) and the mixed-radix transform it owns            *)
(* (kiss_fft.c).                                                           *)
(*                                                                         *)
(* Real-valued quantities (sampling rate, frequencies, BPM values) are     *)
(* exact rationals <<n, d>> with d > 0, in lowest terms where they are     *)
(* kept in a variable; the float rounding of the C++ code is not modelled.  *)
(* The magnitude spectrum that kiss_fft leaves in mFftOut is an arbitrary  *)
(* function of the bins: every magnitude assignment up to MaxMag on the    *)
(* bins the signal can excite (liveBins) is considered.  kiss_fft          *)
(* overwrites all of mFftOut before computeHeartRate reads it, so the      *)
(* spectrum is a local of the call (scan.spectrum), not state kept between *)
(* calls.                                                                  *)
(***************************************************************************)
EXTENDS Integers, Sequences, FiniteSets, TLC

VARIABLES
    mBufferSize,    \* int mBufferSize
    mSamplingRate,  \* float mSamplingRate, a rational
    mRawBuffer,     \* std::vector<float> mRawBuffer
    mTimeBuffer,    \* std::vector<long> mTimeBuffer
    mPrevHR,        \* float mPrevHR, a rational; 0 = no previous estimate
    sensor,         \* intensities the frame reducer can deliver
    liveBins,       \* spectrum bins the signal can excite
    pushed,         \* history: pairs given to addSample since construction/reset
    smooths,        \* history: smoothing updates since construction/reset
    lockedAtReset,  \* history: the last reset() discarded an estimate
    lastOp,         \* history: the last operation called
    ret,            \* history: value it returned, when it was computeHeartRate
    path,           \* history: the return statement it took
    scan,           \* history: its locals at that return, with |mFftOut[i]|
    mFftCfg,        \* kiss_fft_cfg mFftCfg: the plan kiss_fft_alloc built
    fftPc,          \* position of the kiss_fft call: idle, running, done
    stack,          \* call stack of kf_work, innermost frame first
    access          \* array accesses made by the last transform step

spVars == <<mBufferSize, mSamplingRate, mRawBuffer, mTimeBuffer, mPrevHR,
            sensor, liveBins, pushed, smooths, lockedAtReset, lastOp, ret,
            path, scan>>

fftVars == <<mFftCfg, fftPc, stack, access>>

vars == <<spVars, fftVars>>

-----------------------------------------------------------------------------
(* Bounds of the model *)

MaxSlide == 2
MaxSmooth == 2
MaxMag == 1
MaxNfft == 32

-----------------------------------------------------------------------------
(* Exact rational arithmetic *)

RECURSIVE GCD(_, _)
GCD(a, b) == IF b = 0 THEN a ELSE GCD(b, a % b)

Abs(x) == IF x < 0 THEN -x ELSE x

Rat(n, d) ==
    LET g == GCD(Abs(n), Abs(d))
        s == IF d < 0 THEN -1 ELSE 1
    IN  <<(s * n) \div g, (s * d) \div g>>

Norm(a) == Rat(a[1], a[2])
Zero == <<0, 1>>
RInt(k) == <<k, 1>>
RAdd(a, b) == <<a[1] * b[2] + b[1] * a[2], a[2] * b[2]>>
RSub(a, b) == <<a[1] * b[2] - b[1] * a[2], a[2] * b[2]>>
RMul(a, b) == <<a[1] * b[1], a[2] * b[2]>>
RDiv(a, b) == <<a[1] * b[2], a[2] * b[1]>>     \* b > 0
REq(a, b) == a[1] * b[2] = b[1] * a[2]
RLt(a, b) == a[1] * b[2] < b[1] * a[2]
RLe(a, b) == a[1] * b[2] <= b[1] * a[2]
RMax(a, b) == IF RLt(a, b) THEN b ELSE a
RMin(a, b) == IF RLt(b, a) THEN b ELSE a

-----------------------------------------------------------------------------
(* Program constants of computeHeartRate *)

MinSeconds == RInt(3)           \* N < mSamplingRate * 3
DefaultMinFreq == Rat(75, 100)  \* 0.75f
DefaultMaxFreq == Rat(333, 100) \* 3.33f
SecondsPerMinute == RInt(60)    \* 60.0f
BpmWindow == RInt(15)           \* 15.0f
GateFactor == RInt(2)           \* avgMagnitude * 2.0f
OldWeight == Rat(7, 10)         \* 0.7f
NewWeight == Rat(3, 10)         \* 0.3f
NoPeak == -1                    \* int peakIndex = -1

-----------------------------------------------------------------------------
(* kiss_fft.c: plan construction *)

MAXFACTORS == 32

\* floor(sqrt((double)n))
FloorSqrt(n) == CHOOSE r \in 0 .. n : r * r <= n /\ (r + 1) * (r + 1) > n

\* mutant: case 2 falls into the default
NextRadix_NoCase2(p) == IF p = 4 THEN 2 ELSE p + 2

\* switch (p) { case 4: p = 2; case 2: p = 3; default: p += 2; }
NextRadix(p) == IF p = 4 THEN 2 ELSE IF p = 2 THEN 3 ELSE p + 2

\* while (n % p) { switch ...; if (p > floor_sqrt) p = n; }
RECURSIVE TrialDivide(_, _, _)
TrialDivide(n, p, floor_sqrt) ==
    IF n % p # 0
    THEN LET q == NextRadix(p)
         IN  TrialDivide(n, IF q > floor_sqrt THEN n ELSE q, floor_sqrt)
    ELSE p

\* do { ...; n /= p; *facbuf++ = p; *facbuf++ = n; } while (n > 1);
RECURSIVE FactorLoop(_, _, _, _)
FactorLoop(n, p, floor_sqrt, facbuf) ==
    LET p1 == TrialDivide(n, p, floor_sqrt)
        n1 == n \div p1
        out == facbuf \o <<p1, n1>>
    IN  IF n1 > 1 THEN FactorLoop(n1, p1, floor_sqrt, out) ELSE out

\* the ints kf_factor writes to facbuf, in order
kf_factor(n) == FactorLoop(n, 4, FloorSqrt(n), <<>>)

\* the plan: nfft twiddles (twiddles[1] of the struct plus nfft-1 more),
\* then nfft scratch entries at twiddles + nfft
kiss_fft_alloc(nfft) ==
    [nfft |-> nfft, factors |-> kf_factor(nfft), nTwiddles |-> nfft,
     nScratch |-> nfft]

-----------------------------------------------------------------------------
(* Construction *)

\* bins the scan loop visits: for (int i = 1; i < mBufferSize / 2; ++i)
ScanBins(bufferSize) == 1 .. ((bufferSize \div 2) - 1)

\* (bufferSize, samplingRate, intensities of the run, bins it can excite).
\* 10 at 3 Hz: every scanned bin; 10 at 2.5 Hz: a bin on the 0.75 Hz edge and
\* one below it; 30 at 7.5 Hz: bins around the 3.33 Hz edge.
Configs ==
    { <<1, Rat(1, 3), {1, 2}, ScanBins(1)>>,
      <<3, RInt(1), {1, 2}, ScanBins(3)>>,
      <<10, Rat(5, 2), {1}, {2, 3, 4}>>,
      <<10, RInt(3), {1}, ScanBins(10)>>,
      <<30, Rat(15, 2), {1}, {11, 13, 14}>> }

NoScan == [spectrum |-> <<>>, peakIndex |-> NoPeak, maxMagnitude |-> 0,
           sumMagnitude |-> 0, countMagnitude |-> 0,
           minFreq |-> DefaultMinFreq, maxFreq |-> DefaultMaxFreq]

\* SignalProcessor::SignalProcessor(bufferSize, samplingRate)
Construct(bufferSize, samplingRate, intensities, bins) ==
        /\ mBufferSize = bufferSize
        /\ mSamplingRate = samplingRate
        /\ sensor = intensities
        /\ liveBins = bins
        /\ mFftCfg = kiss_fft_alloc(bufferSize)
        /\ fftPc = "idle"
        /\ stack = <<>>
        /\ access = {}
        /\ mRawBuffer = <<>>
        /\ mTimeBuffer = <<>>
        /\ mPrevHR = Zero
        /\ pushed = <<>>
        /\ smooths = 0
        /\ lockedAtReset = FALSE
        /\ lastOp = "construct"
        /\ ret = Zero
        /\ path = "none"
        /\ scan = NoScan

Init == \E cfg \in Configs : Construct(cfg[1], cfg[2], cfg[3], cfg[4])

-----------------------------------------------------------------------------
(* addSample *)

\* mutant: the newest sample is dropped instead of the oldest
SlideAppend_DropNewest(buf, value) ==
    Append(IF Len(buf) >= mBufferSize THEN SubSeq(buf, 1, Len(buf) - 1)
           ELSE buf, value)

\* if (size() >= mBufferSize) erase(begin()); push_back(value)
SlideAppend(buf, value) ==
    Append(IF Len(buf) >= mBufferSize THEN Tail(buf) ELSE buf, value)

\* frames are stamped with their number since the window was last emptied
FrameTime == Len(pushed) + 1

\* the window is filled and then slides MaxSlide times
addSample ==
    /\ Len(pushed) < mBufferSize + MaxSlide
    /\ \E greenValue \in sensor, timestamp \in {FrameTime} :
        /\ mRawBuffer' = SlideAppend(mRawBuffer, greenValue)
        /\ mTimeBuffer' = SlideAppend(mTimeBuffer, timestamp)
        /\ pushed' = Append(pushed, <<greenValue, timestamp>>)
    /\ lastOp' = "addSample"
    /\ ret' = Zero
    /\ path' = "none"
    /\ scan' = NoScan
    /\ UNCHANGED <<mBufferSize, mSamplingRate, mPrevHR, sensor, liveBins,
                   smooths, lockedAtReset>>
    /\ UNCHANGED fftVars

-----------------------------------------------------------------------------
(* reset *)

\* mutant: reset() forgets mRawBuffer.clear() / mTimeBuffer.clear()
ClearedBuffer_Kept == mRawBuffer

\* mRawBuffer.clear(); mTimeBuffer.clear();
ClearedBuffer == <<>>

\* mutant: reset() keeps the previous estimate
ClearedHR_Kept == mPrevHR

\* mPrevHR = 0.0f;
ClearedHR == Zero

reset ==
    /\ mRawBuffer' = ClearedBuffer
    /\ mTimeBuffer' = ClearedBuffer
    /\ mPrevHR' = ClearedHR
    /\ pushed' = <<>>
    /\ smooths' = 0
    /\ lockedAtReset' = RLt(Zero, mPrevHR)
    /\ lastOp' = "reset"
    /\ ret' = Zero
    /\ path' = "none"
    /\ scan' = NoScan
    /\ UNCHANGED <<mBufferSize, mSamplingRate, sensor, liveBins>>
    /\ UNCHANGED fftVars

-----------------------------------------------------------------------------
(* computeHeartRate *)

\* mutant: one second of samples is taken to be enough
InsufficientData_OneSecond(N) == RLt(RInt(N), mSamplingRate)

\* if (N < mSamplingRate * 3) return 0.0f;
InsufficientData(N) == RLt(RInt(N), RMul(mSamplingRate, MinSeconds))

\* mutant: a Locked estimator searches the whole default band
SearchBand_NoNarrowing(prevHR) == <<DefaultMinFreq, DefaultMaxFreq>>

\* mutant: the narrowed band is not clamped to the default band
SearchBand_NoClamp(prevHR) ==
    IF RLt(Zero, prevHR)
    THEN LET prevFreq == RDiv(prevHR, SecondsPerMinute)
             window == RDiv(BpmWindow, SecondsPerMinute)
         IN  <<RSub(prevFreq, window), RAdd(prevFreq, window)>>
    ELSE <<DefaultMinFreq, DefaultMaxFreq>>

\* 4. Define Search Range: <<minFreq, maxFreq>>
SearchBand(prevHR) ==
    IF RLt(Zero, prevHR)
    THEN LET prevFreq == RDiv(prevHR, SecondsPerMinute)
             window == RDiv(BpmWindow, SecondsPerMinute)
         IN  <<RMax(DefaultMinFreq, RSub(prevFreq, window)),
               RMin(DefaultMaxFreq, RAdd(prevFreq, window))>>
    ELSE <<DefaultMinFreq, DefaultMaxFreq>>

\* |mFftOut[i]| for the scanned bins: up to MaxMag where the signal can
\* excite the bin, 0 elsewhere
Spectra ==
    { [i \in ScanBins(mBufferSize) |-> IF i \in liveBins THEN live[i] ELSE 0] :
      live \in [liveBins -> 0 .. MaxMag] }

\* float freq = (i * mSamplingRate) / mBufferSize;
BinFreq(i) == RDiv(RMul(RInt(i), mSamplingRate), RInt(mBufferSize))

\* if (freq >= 0.75f && freq <= 3.33f)
InDefaultBand(freq) == RLe(DefaultMinFreq, freq) /\ RLe(freq, DefaultMaxFreq)

\* if (freq >= minFreq && freq <= maxFreq)
InSearchBand(freq, band) == RLe(band[1], freq) /\ RLe(freq, band[2])

\* one iteration of the "5. Find Peak" loop
ScanStep(acc, i, spectrum, band) ==
    LET freq == BinFreq(i)
        magnitude == spectrum[i]
        summed == IF InDefaultBand(freq)
                  THEN [acc EXCEPT !.sumMagnitude = @ + magnitude,
                                   !.countMagnitude = @ + 1]
                  ELSE acc
    IN  IF InSearchBand(freq, band) /\ magnitude > acc.maxMagnitude
        THEN [summed EXCEPT !.maxMagnitude = magnitude, !.peakIndex = i]
        ELSE summed

RECURSIVE ScanLoop(_, _, _, _)
ScanLoop(acc, i, spectrum, band) ==
    IF i < mBufferSize \div 2
    THEN ScanLoop(ScanStep(acc, i, spectrum, band), i + 1, spectrum, band)
    ELSE acc

\* locals after the loop, for a spectrum and the search range of step 4
FindPeak(spectrum, band) ==
    LET start == [spectrum |-> spectrum, peakIndex |-> NoPeak,
                  maxMagnitude |-> 0, sumMagnitude |-> 0, countMagnitude |-> 0,
                  minFreq |-> Norm(band[1]), maxFreq |-> Norm(band[2])]
    IN  ScanLoop(start, 1, spectrum, band)

\* mutant: the peak only has to reach the average
GateRejects_OneTimes(s) ==
    /\ s.countMagnitude > 0
    /\ RLt(RInt(s.maxMagnitude),
           RDiv(RInt(s.sumMagnitude), RInt(s.countMagnitude)))

\* 6. Validate Signal Quality: countMagnitude > 0 and
\* maxMagnitude < avgMagnitude * 2.0f
GateRejects(s) ==
    /\ s.countMagnitude > 0
    /\ RLt(RInt(s.maxMagnitude),
           RMul(RDiv(RInt(s.sumMagnitude), RInt(s.countMagnitude)), GateFactor))

\* return mPrevHR > 0 ? mPrevHR : 0.0f;
GatedReturn(prevHR) == IF RLt(Zero, prevHR) THEN prevHR ELSE Zero

\* float currentBpm = freq * 60.0f;
CurrentBpm(peakIndex) == RMul(BinFreq(peakIndex), SecondsPerMinute)

\* mutant: the weights are swapped
Smooth_Swapped(prevHR, currentBpm) ==
    IF RLt(Zero, prevHR)
    THEN RAdd(RMul(prevHR, NewWeight), RMul(currentBpm, OldWeight))
    ELSE currentBpm

\* Smooth update: 30% new value, 70% old value
Smooth(prevHR, currentBpm) ==
    IF RLt(Zero, prevHR)
    THEN RAdd(RMul(prevHR, OldWeight), RMul(currentBpm, NewWeight))
    ELSE currentBpm

computeHeartRate ==
    /\ smooths < MaxSmooth
    /\ lastOp' = "computeHeartRate"
    /\ LET N == Len(mRawBuffer) IN
       IF InsufficientData(N)
       THEN /\ ret' = Zero
            /\ path' = "insufficient"
            /\ scan' = NoScan
            /\ UNCHANGED <<mPrevHR, smooths>>
       ELSE LET band == SearchBand(mPrevHR) IN
            \E spectrum \in Spectra :
            \E s \in {FindPeak(spectrum, band)} :
            /\ scan' = s
            /\ IF GateRejects(s)
               THEN /\ ret' = GatedReturn(mPrevHR)
                    /\ path' = "gated"
                    /\ UNCHANGED <<mPrevHR, smooths>>
               ELSE IF s.peakIndex # NoPeak
               THEN /\ mPrevHR' = Norm(Smooth(mPrevHR, CurrentBpm(s.peakIndex)))
                    /\ ret' = mPrevHR'
                    /\ path' = "accepted"
                    /\ smooths' = IF RLt(Zero, mPrevHR) THEN smooths + 1
                                  ELSE smooths
               ELSE /\ ret' = mPrevHR
                    /\ path' = "nopeak"
                    /\ UNCHANGED <<mPrevHR, smooths>>
    /\ UNCHANGED <<mBufferSize, mSamplingRate, mRawBuffer, mTimeBuffer,
                   sensor, liveBins, pushed, lockedAtReset>>
    /\ UNCHANGED fftVars

-----------------------------------------------------------------------------
(* kiss_fft.c: transform execution.  Only the addresses are modelled: an    *)
(* access is <<array, index>>, with fin = mFftIn and fout = mFftOut (both   *)
(* resized to bufferSize), twiddles and scratch as laid out by              *)
(* kiss_fft_alloc.                                                          *)

\* a kf_work activation: Fout_beg, the moving Fout and f, and its arguments
Frame(Fout, f, fstride, in_stride, fac) ==
    [Fout_beg |-> Fout, Fout |-> Fout, f |-> f, fstride |-> fstride,
     in_stride |-> in_stride, fac |-> fac, pc |-> "entry"]

\* const int p = *factors++; const int m = *factors++;
Radix(fr) == mFftCfg.factors[fr.fac]
StageLen(fr) == mFftCfg.factors[fr.fac + 1]

\* kiss_fft: kf_work(fout, fin, 1, 1, st->factors, st)
kiss_fft ==
    /\ fftPc = "idle"
    /\ fftPc' = "running"
    /\ stack' = <<Frame(0, 0, 1, 1, 1)>>
    /\ access' = {}
    /\ UNCHANGED <<mFftCfg, spVars>>

\* if (m == 1) do { *Fout = *f; f += fstride*in_stride; } while (++Fout != Fout_end);
CopyAccess(fr) ==
    UNION { { <<"fout", fr.Fout + j>>,
              <<"fin", fr.f + j * fr.fstride * fr.in_stride>> } :
            j \in 0 .. (Radix(fr) * StageLen(fr) - 1) }

KfWorkCopy ==
    /\ fftPc = "running"
    /\ LET fr == Head(stack) IN
        /\ fr.pc = "entry"
        /\ StageLen(fr) = 1
        /\ access' = CopyAccess(fr)
        /\ stack' = <<[fr EXCEPT !.pc = "bfly"]>> \o Tail(stack)
    /\ UNCHANGED <<fftPc, mFftCfg, spVars>>

\* else do { kf_work(Fout, f, fstride*p, in_stride, factors, st);
\*           f += fstride*in_stride; } while ((Fout += m) != Fout_end);
KfWorkRecurse ==
    /\ fftPc = "running"
    /\ LET fr == Head(stack)
           p == Radix(fr)
           m == StageLen(fr)
           Fout_end == fr.Fout_beg + p * m
           child == Frame(fr.Fout, fr.f, fr.fstride * p, fr.in_stride,
                          fr.fac + 2)
       IN
        /\ fr.pc = "entry"
        /\ m # 1
        /\ access' = {}
        /\ stack' = <<child,
                      [fr EXCEPT !.f = @ + fr.fstride * fr.in_stride,
                                 !.Fout = @ + m,
                                 !.pc = IF fr.Fout + m # Fout_end
                                        THEN "entry" ELSE "bfly"]>>
                    \o Tail(stack)
    /\ UNCHANGED <<fftPc, mFftCfg, spVars>>

\* return of the innermost kf_work after its butterfly
Return(touched) ==
    /\ access' = touched
    /\ stack' = Tail(stack)
    /\ fftPc' = IF Tail(stack) = <<>> THEN "done" ELSE "running"
    /\ UNCHANGED <<mFftCfg, spVars>>

\* kf_bfly2: Fout, Fout2 = Fout + m, tw1 += fstride, do ... while (--m)
Bfly2Access(Fout, fstride, m) ==
    UNION { { <<"fout", Fout + j>>, <<"fout", Fout + m + j>>,
              <<"twiddles", j * fstride>> } : j \in 0 .. (m - 1) }

\* kf_bfly4: Fout[0], Fout[m], Fout[2*m], Fout[3*m]; tw1, tw2, tw3
Bfly4Access(Fout, fstride, m) ==
    UNION { { <<"fout", Fout + j>>, <<"fout", Fout + j + m>>,
              <<"fout", Fout + j + 2 * m>>, <<"fout", Fout + j + 3 * m>>,
              <<"twiddles", j * fstride>>, <<"twiddles", j * fstride * 2>>,
              <<"twiddles", j * fstride * 3>> } : j \in 0 .. (m - 1) }

\* mutant: no wraparound
TwidxStep_NoWrap(twidx, fstride, k, Norig) == twidx + fstride * k

\* twidx += fstride * k; if (twidx >= Norig) twidx -= Norig;
TwidxStep(twidx, fstride, k, Norig) ==
    LET t == twidx + fstride * k
    IN  IF t >= Norig THEN t - Norig ELSE t

\* twidx when scratch[q] is combined: q steps from int twidx = 0
RECURSIVE Twidx(_, _, _, _)
Twidx(q, fstride, k, Norig) ==
    IF q = 0 THEN 0
    ELSE TwidxStep(Twidx(q - 1, fstride, k, Norig), fstride, k, Norig)

\* kf_bfly_generic: for u < m: scratch[q1] = Fout[k]; then per output k,
\* Fout[k] = scratch[0] and the sum over scratch[q] * twiddles[twidx]
GenericAccess(Fout, fstride, m, p, Norig) ==
    UNION { UNION { { <<"scratch", q1>>, <<"fout", Fout + u + q1 * m>>,
                      <<"scratch", 0>> }
                    \cup UNION { { <<"scratch", q>>,
                                   <<"twiddles",
                                     Twidx(q, fstride, u + q1 * m, Norig)>> } :
                                 q \in 1 .. (p - 1) } :
                    q1 \in 0 .. (p - 1) } :
            u \in 0 .. (m - 1) }

\* switch (p) case 2
KfBfly2 ==
    /\ fftPc = "running"
    /\ LET fr == Head(stack) IN
        /\ fr.pc = "bfly"
        /\ Radix(fr) = 2
        /\ Return(Bfly2Access(fr.Fout_beg, fr.fstride, StageLen(fr)))

\* switch (p) case 4
KfBfly4 ==
    /\ fftPc = "running"
    /\ LET fr == Head(stack) IN
        /\ fr.pc = "bfly"
        /\ Radix(fr) = 4
        /\ Return(Bfly4Access(fr.Fout_beg, fr.fstride, StageLen(fr)))

\* switch (p) default
KfBflyGeneric ==
    /\ fftPc = "running"
    /\ LET fr == Head(stack) IN
        /\ fr.pc = "bfly"
        /\ Radix(fr) \notin {2, 4}
        /\ Return(GenericAccess(fr.Fout_beg, fr.fstride, StageLen(fr),
                                Radix(fr), mFftCfg.nfft))

-----------------------------------------------------------------------------
(* Properties of SignalProcessor (Spec) *)

Locked(hr) == RLt(Zero, hr)

\* fewer than samplingRate x 3 live samples
TooFew(count) == count * mSamplingRate[2] < 3 * mSamplingRate[1]

\* the last k elements of a sequence
LastOf(seq, k) == SubSeq(seq, Len(seq) - k + 1, Len(seq))

\* C1: the window holds the last min(capacity, pushes) pushed (intensity,
\* timestamp) pairs in insertion order; its length never exceeds capacity.
C1_FifoWindow ==
    LET kept == IF Len(pushed) <= mBufferSize THEN Len(pushed)
                ELSE mBufferSize
        window == LastOf(pushed, kept)
    IN  /\ Len(mRawBuffer) <= mBufferSize
        /\ Len(mRawBuffer) = kept
        /\ Len(mTimeBuffer) = kept
        /\ \A i \in 1 .. kept :
              <<mRawBuffer[i], mTimeBuffer[i]>> = window[i]

\* capacity + 2 pushes on a window of at least two, the evicted intensity
\* differing from the oldest one kept
C1_Witness ==
    /\ mBufferSize >= 2
    /\ Len(pushed) = mBufferSize + 2
    /\ pushed[1][1] # mRawBuffer[1]
    /\ mRawBuffer[1] # mRawBuffer[2]

\* C2: reset() leaves getSampleCount() = 0 and no previous estimate, and a
\* computeHeartRate() called before any further addSample returns 0.
C2_Reset ==
    /\ lastOp = "reset" => Len(mRawBuffer) = 0 /\ mPrevHR = Zero
    /\ lastOp = "computeHeartRate" /\ pushed = <<>> => ret = Zero

\* computeHeartRate returned 0 after a reset that dropped a Locked estimate
C2_Witness ==
    /\ lastOp = "computeHeartRate"
    /\ pushed = <<>>
    /\ lockedAtReset
    /\ ret = Zero
    /\ mPrevHR = Zero

\* C3: a computeHeartRate() call with fewer than samplingRate x 3 live
\* samples returns 0 and leaves the previous estimate and the window as
\* they were.
C3_InsufficientData ==
    [][lastOp' = "computeHeartRate" /\ TooFew(Len(mRawBuffer))
       => /\ ret' = Zero
          /\ mPrevHR' = mPrevHR
          /\ mRawBuffer' = mRawBuffer
          /\ mTimeBuffer' = mTimeBuffer]_vars

\* the call was made one sample short of the threshold
C3_Witness ==
    /\ lastOp = "computeHeartRate"
    /\ path = "insufficient"
    /\ Len(mRawBuffer) > 0
    /\ ~TooFew(Len(mRawBuffer) + 1)
    /\ ret = Zero

\* bins of the scan with a frequency in [lo, hi]
BinsIn(lo, hi) ==
    { i \in 1 .. ((mBufferSize \div 2) - 1) :
        /\ lo[1] * mBufferSize * mSamplingRate[2] <= i * mSamplingRate[1] * lo[2]
        /\ i * mSamplingRate[1] * hi[2] <= hi[1] * mBufferSize * mSamplingRate[2] }

DefaultBins == BinsIn(<<3, 4>>, <<333, 100>>)

RECURSIVE SumOver(_, _)
SumOver(spectrum, bins) ==
    IF bins = {} THEN 0
    ELSE LET i == CHOOSE j \in bins : TRUE
         IN  spectrum[i] + SumOver(spectrum, bins \ {i})

\* average over the full default band positive, peak below twice it
WeakSignal(spectrum, peakMagnitude) ==
    /\ SumOver(spectrum, DefaultBins) > 0
    /\ peakMagnitude * Cardinality(DefaultBins)
         < 2 * SumOver(spectrum, DefaultBins)

\* C4: a call with enough samples whose tracked peak is below twice the
\* positive default-band average returns the previous estimate when Locked
\* and 0 when Unlocked, and leaves the previous estimate as it was.
C4_WeakSignalGate ==
    [][/\ lastOp' = "computeHeartRate"
       /\ ~TooFew(Len(mRawBuffer))
       /\ WeakSignal(scan'.spectrum, scan'.maxMagnitude)
       => /\ ret' = IF Locked(mPrevHR) THEN mPrevHR ELSE Zero
          /\ mPrevHR' = mPrevHR]_vars

\* a Locked estimator was gated with a non-zero peak in its search band
C4_Witness ==
    /\ lastOp = "computeHeartRate"
    /\ path = "gated"
    /\ Locked(mPrevHR)
    /\ scan.maxMagnitude > 0
    /\ ret = mPrevHR

\* raw_new = 60 x peakIndex x samplingRate / N
RawBpm(peakIndex) ==
    Rat(60 * peakIndex * mSamplingRate[1], mBufferSize * mSamplingRate[2])

\* C5: a call that accepts a peak stores raw_new when Unlocked (and becomes
\* Locked) and 0.7 x previous + 0.3 x raw_new when Locked, and returns the
\* stored value: the returned value differs from the previous estimate, and
\* from the value an immediately preceding accepting call returned, by
\* 0.3 x (raw_new - previous).
C5_AcceptAndSmooth ==
    [][lastOp' = "computeHeartRate" /\ path' = "accepted"
       => LET raw_new == RawBpm(scan'.peakIndex) IN
          /\ ret' = mPrevHR'
          /\ ~Locked(mPrevHR) => mPrevHR' = raw_new /\ Locked(mPrevHR')
          /\ Locked(mPrevHR) =>
               /\ REq(mPrevHR', RAdd(RMul(<<7, 10>>, mPrevHR),
                                     RMul(<<3, 10>>, raw_new)))
               /\ REq(RSub(ret', mPrevHR),
                      RMul(<<3, 10>>, RSub(raw_new, mPrevHR)))
          /\ lastOp = "computeHeartRate" /\ path = "accepted" =>
               REq(RSub(ret', ret), RMul(<<3, 10>>, RSub(raw_new, ret)))]_vars

\* a Locked estimator accepted a peak at another bin: the estimate moved
C5_Witness ==
    /\ lastOp = "computeHeartRate"
    /\ path = "accepted"
    /\ smooths >= 1
    /\ mPrevHR # RawBpm(scan.peakIndex)
    /\ ret = mPrevHR

\* the search band of the claim for the estimate held at entry
ClaimBand(hr) ==
    IF Locked(hr)
    THEN <<Norm(RMax(<<3, 4>>, RSub(RDiv(hr, <<60, 1>>), <<1, 4>>))),
           Norm(RMin(<<333, 100>>, RAdd(RDiv(hr, <<60, 1>>), <<1, 4>>)))>>
    ELSE <<<<3, 4>>, <<333, 100>>>>

C9_LockedHasSamples ==
    [][/\ Locked(mPrevHR') => ~TooFew(Len(mRawBuffer'))
       /\ lastOp' = "computeHeartRate" =>
            /\ ret' = mPrevHR'
            /\ Locked(mPrevHR) => ret' # Zero]_vars

\* a Locked estimator kept its estimate through a full, sliding window
C9_Witness ==
    /\ lastOp = "computeHeartRate"
    /\ Locked(mPrevHR)
    /\ path = "nopeak"
    /\ Len(pushed) > mBufferSize
    /\ ret = mPrevHR

\* 0, or a BPM value in 60 x 0.75 .. 60 x 3.33
AbsentOrInBand(hr) == hr = Zero \/ (RLe(<<45, 1>>, hr) /\ RLe(hr, <<1998, 10>>))

\* C10: the previous estimate is absent (0) or within 45 .. 199.8 BPM, so
\* is every value computeHeartRate returns, and a Locked estimator becomes
\* Unlocked only through reset().
C10_EstimateInBand ==
    [][/\ AbsentOrInBand(mPrevHR')
       /\ AbsentOrInBand(ret')
       /\ Locked(mPrevHR) /\ ~Locked(mPrevHR') => lastOp' = "reset"]_vars

\* a smoothed estimate strictly inside the band, reached from its lower edge
C10_Witness ==
    /\ lastOp = "computeHeartRate"
    /\ path = "accepted"
    /\ smooths >= 1
    /\ RLt(<<45, 1>>, mPrevHR)
    /\ RLt(mPrevHR, <<60, 1>>)

-----------------------------------------------------------------------------
(* Properties of the plan and of the transform run (SpecFFT) *)

\* the pairs of a factor buffer: <<radix, remaining-length>>, front to back
Pairs(facbuf) ==
    [j \in 1 .. (Len(facbuf) \div 2) |-> <<facbuf[2 * j - 1], facbuf[2 * j]>>]

RECURSIVE RadixProduct(_, _)
RadixProduct(pairs, j) ==
    IF j = 0 THEN 1 ELSE pairs[j][1] * RadixProduct(pairs, j - 1)

\* the decomposition as described: radix 4, then 2, then 3, then odd numbers
\* by steps of 2, trial division bounded by floor(sqrt(remaining)), the
\* remaining value being the last radix
GreedyNext(p) == CASE p = 4 -> 2 [] p = 2 -> 3 [] OTHER -> p + 2

RECURSIVE Greedy(_, _)
Greedy(remaining, p) ==
    IF remaining % p = 0
    THEN <<<<p, remaining \div p>>>>
         \o (IF remaining \div p > 1 THEN Greedy(remaining \div p, p) ELSE <<>>)
    ELSE IF GreedyNext(p) > FloorSqrt(remaining)
         THEN <<<<remaining, 1>>>>
         ELSE Greedy(remaining, GreedyNext(p))

\* C7: for every transform length N >= 1 the factor buffer of the plan is
\* the greedy (radix, remaining-length) list: every radix divides the length
\* remaining before it, every remaining-length is that length divided by the
\* radix, the radices multiply to N, the last remaining-length is 1, and the
\* list has at most MAXFACTORS pairs.
C7_Factorization ==
    LET N == mFftCfg.nfft
        facbuf == mFftCfg.factors
        pairs == Pairs(facbuf)
        k == Len(pairs)
        before(j) == IF j = 1 THEN N ELSE pairs[j - 1][2]
    IN  /\ Len(facbuf) = 2 * k
        /\ k >= 1
        /\ k <= MAXFACTORS
        /\ \A j \in 1 .. k :
              /\ pairs[j][1] >= 1
              /\ before(j) % pairs[j][1] = 0
              /\ pairs[j][2] * pairs[j][1] = before(j)
        /\ RadixProduct(pairs, k) = N
        /\ pairs[k][2] = 1
        /\ pairs = Greedy(N, 4)

\* a length with a radix-4 stage, a radix-2 stage and a generic stage
C7_Witness ==
    /\ fftPc = "done"
    /\ Len(mFftCfg.factors) = 6
    /\ mFftCfg.factors[1] = 4
    /\ mFftCfg.factors[3] = 2
    /\ mFftCfg.factors[5] = 3

\* length of the array an access goes to
ArrayLen(array) ==
    CASE array = "fin" -> mBufferSize
      [] array = "fout" -> mBufferSize
      [] array = "twiddles" -> mFftCfg.nTwiddles
      [] array = "scratch" -> mFftCfg.nScratch

\* C8: during kiss_fft every twiddle index is in [0, N), every scratch index
\* is below the scratch size of the plan, and every input read and output
\* write is in [0, N).
C8_MemorySafety ==
    /\ mFftCfg.nTwiddles = mFftCfg.nfft
    /\ mBufferSize = mFftCfg.nfft
    /\ \A a \in access : a[2] >= 0 /\ a[2] < ArrayLen(a[1])

\* a generic butterfly of radix >= 3 in a multi-stage plan has returned; its
\* twiddle index wrapped (the last twiddle used is not at index 0)
C8_Witness ==
    /\ Len(mFftCfg.factors) >= 4
    /\ <<"scratch", 2>> \in access
    /\ \E a \in access : a[1] = "twiddles" /\ a[2] > mFftCfg.nfft \div 2

-----------------------------------------------------------------------------
Next == addSample \/ reset \/ computeHeartRate

Spec == Init /\ [][Next]_vars

\* the transform run on its own, for every transform length up to MaxNfft
FftRate == RInt(30)

InitFFT ==
    \E nfft \in 1 .. MaxNfft : Construct(nfft, FftRate, {1}, ScanBins(nfft))

NextFFT == kiss_fft \/ KfWorkCopy \/ KfWorkRecurse \/ KfBfly2 \/ KfBfly4
           \/ KfBflyGeneric

SpecFFT == InitFFT /\ [][NextFFT]_vars

====
